---- MODULE Spec2Model ----
(***************************************************************************)
(* A model of SeoInsight: the URL helpers, the SEOAnalyzer (fetch,         *)
(* extraction, scoring rubric, preview resolution), the DatabaseManager    *)
(* and the Streamlit script of app.py.                                      *)
(*                                                                         *)
(* Python strings that the code inspects character by character (URLs,     *)
(* attribute names, tag text) are sequences of one-character strings.      *)
(* Python dict keys that are literals of the code ('title', 'score', ...)  *)
(* are record fields.  A Python value that may be None is a tagged record: *)
(* PyNone or PyStr(s).                                                     *)
(***************************************************************************)
EXTENDS Integers, Sequences, FiniteSets, TLC

VARIABLES
    soup,       \* SEOAnalyzer.soup: PyNone or the parsed page
    url,        \* SEOAnalyzer.url: PyNone or PyStr(normalized url)
    seo_data,   \* SEOAnalyzer.seo_data: the empty dict or a SeoDocument
    analyzed,   \* st.session_state.analyzed
    cache,      \* st.session_state.cached_* (all four keys, or none of them)
    store,      \* rows of table seo_analyses, in insertion order
    arg,        \* the argument of the operation applied last
    ret         \* the outcome of the operation applied last

vars == <<soup, url, seo_data, analyzed, cache, store, arg, ret>>

(***************************************************************************)
(* Python values                                                           *)
(***************************************************************************)
PyNone == [t |-> "None"]

PyStr(s) == [t |-> "str", v |-> s]

\* the empty dict {} (also the empty mapping of og_tags / twitter_tags)
EmptyDict == <<>>

\* dict.get(k, default)
Get(d, k, default) == IF k \in DOMAIN d THEN d[k] ELSE default

\* str.startswith(prefix)
StartsWith(s, p) == Len(s) >= Len(p) /\ SubSeq(s, 1, Len(p)) = p

\* str.startswith(tuple of prefixes)
StartsWithAny(s, ps) == \E p \in ps : StartsWith(s, p)

\* str.replace(old, new) for a non-empty old: leftmost, non-overlapping, all
RECURSIVE Replace(_, _, _)
Replace(s, old, new) ==
    IF Len(s) < Len(old) THEN s
    ELSE IF StartsWith(s, old)
         THEN new \o Replace(SubSeq(s, Len(old) + 1, Len(s)), old, new)
         ELSE <<Head(s)>> \o Replace(Tail(s), old, new)

\* list(dict.fromkeys(xs)): first occurrences, order kept
RECURSIVE DictFromKeys(_)
DictFromKeys(xs) ==
    IF xs = <<>> THEN <<>>
    ELSE LET init == DictFromKeys(SubSeq(xs, 1, Len(xs) - 1))
             last == xs[Len(xs)]
         IN  IF \E i \in 1..Len(init) : init[i] = last
             THEN init ELSE Append(init, last)

(***************************************************************************)
(* seo_analyzer.py: URL helpers                                            *)
(***************************************************************************)
HTTP == <<"h", "t", "t", "p", ":", "/", "/">>

HTTPS == <<"h", "t", "t", "p", "s", ":", "/", "/">>

normalize_url_prepends_always(u) == HTTPS \o u

normalize_url(u) ==
    IF ~StartsWithAny(u, {HTTP, HTTPS}) THEN HTTPS \o u ELSE u

\* the three candidates, before de-duplication
url_variation_candidates(u) ==
    LET normalized == normalize_url(u)
    IN  <<u, normalized,
          IF StartsWithAny(u, {HTTP, HTTPS})
          THEN Replace(Replace(u, HTTPS, <<>>), HTTP, <<>>) ELSE u>>

get_url_variations_no_dedup(u) == url_variation_candidates(u)

get_url_variations(u) == DictFromKeys(url_variation_candidates(u))

(***************************************************************************)
(* seo_analyzer.py: the parsed page (BeautifulSoup) and extract_seo_tags   *)
(*                                                                         *)
(* A page is [titles, metas, h1s, canonicals]: the text of its <title>     *)
(* elements, its <meta> elements [name, property, content] (an attribute   *)
(* is PyNone when the element does not carry it), the text of its <h1>     *)
(* elements and the href of its <link rel="canonical"> elements, each in   *)
(* document order.                                                         *)
(***************************************************************************)
UpperChars ==
    <<"A", "B", "C", "D", "E", "F", "G", "H", "I", "J", "K", "L", "M",
      "N", "O", "P", "Q", "R", "S", "T", "U", "V", "W", "X", "Y", "Z">>

LowerChars ==
    <<"a", "b", "c", "d", "e", "f", "g", "h", "i", "j", "k", "l", "m",
      "n", "o", "p", "q", "r", "s", "t", "u", "v", "w", "x", "y", "z">>

\* the lower-case letter of each upper-case letter
LowerOf ==
    [c \in {UpperChars[k] : k \in 1..Len(UpperChars)} |->
        LowerChars[CHOOSE k \in 1..Len(UpperChars) : UpperChars[k] = c]]

\* str.lower()
Lower(s) ==
    [i \in 1..Len(s) |->
        IF s[i] \in DOMAIN LowerOf THEN LowerOf[s[i]] ELSE s[i]]

Whitespace == {" ", "\n", "\t"}

\* str.strip()
RECURSIVE Strip(_)
Strip(s) ==
    IF s = <<>> THEN s
    ELSE IF Head(s) \in Whitespace THEN Strip(Tail(s))
    ELSE IF s[Len(s)] \in Whitespace THEN Strip(SubSeq(s, 1, Len(s) - 1))
    ELSE s

\* tag.get(attr, default)
AttrGet(tag, attr, default) ==
    IF tag[attr].t = "None" THEN default ELSE tag[attr].v

\* d[k] = v
DictSet(d, k, v) ==
    [x \in (DOMAIN d) \cup {k} |-> IF x = k THEN v ELSE d[x]]

DESCRIPTION == <<"d", "e", "s", "c", "r", "i", "p", "t", "i", "o", "n">>

KEYWORDS == <<"k", "e", "y", "w", "o", "r", "d", "s">>

OG_PREFIX == <<"o", "g", ":">>

TWITTER_PREFIX == <<"t", "w", "i", "t", "t", "e", "r", ":">>

\* one iteration of the loop over the <meta> elements
ExtractMeta_og_first(sd, meta) ==
    LET name == Lower(AttrGet(meta, "name", <<>>))
        property_attr == Lower(AttrGet(meta, "property", <<>>))
        content == AttrGet(meta, "content", <<>>)
    IN  IF StartsWith(property_attr, OG_PREFIX)
        THEN [sd EXCEPT !.og_tags = DictSet(@, property_attr, content)]
        ELSE IF name = DESCRIPTION
        THEN [sd EXCEPT !.meta_description = content]
        ELSE IF name = KEYWORDS
        THEN [sd EXCEPT !.meta_keywords = content]
        ELSE IF StartsWith(name, TWITTER_PREFIX)
        THEN [sd EXCEPT !.twitter_tags = DictSet(@, name, content)]
        ELSE sd

ExtractMeta(sd, meta) ==
    LET name == Lower(AttrGet(meta, "name", <<>>))
        property_attr == Lower(AttrGet(meta, "property", <<>>))
        content == AttrGet(meta, "content", <<>>)
    IN  IF name = DESCRIPTION
        THEN [sd EXCEPT !.meta_description = content]
        ELSE IF name = KEYWORDS
        THEN [sd EXCEPT !.meta_keywords = content]
        ELSE IF StartsWith(property_attr, OG_PREFIX)
        THEN [sd EXCEPT !.og_tags = DictSet(@, property_attr, content)]
        ELSE IF StartsWith(name, TWITTER_PREFIX)
        THEN [sd EXCEPT !.twitter_tags = DictSet(@, name, content)]
        ELSE sd

RECURSIVE ExtractMetas(_, _)
ExtractMetas(sd, metas) ==
    IF metas = <<>> THEN sd
    ELSE ExtractMetas(ExtractMeta(sd, Head(metas)), Tail(metas))

\* the value extract_seo_tags returns and stores in self.seo_data, for a
\* soup that is not None
extract_seo_tags(page, self_url) ==
    LET blank == [url |-> self_url, title |-> <<>>, meta_description |-> <<>>,
                  meta_keywords |-> <<>>, og_tags |-> EmptyDict,
                  twitter_tags |-> EmptyDict, h1_tags |-> <<>>,
                  canonical |-> <<>>]
        with_title ==
            IF page.titles # <<>>
            THEN [blank EXCEPT !.title = Strip(page.titles[1])]
            ELSE blank
        with_metas == ExtractMetas(with_title, page.metas)
        with_h1 ==
            [with_metas EXCEPT
                !.h1_tags = [i \in 1..Len(page.h1s) |-> Strip(page.h1s[i])]]
    IN  IF page.canonicals # <<>>
        THEN [with_h1 EXCEPT
                !.canonical = AttrGet(page.canonicals[1], "href", <<>>)]
        ELSE with_h1

(***************************************************************************)
(* seo_analyzer.py: analyze_seo_quality, calculate_seo_score               *)
(***************************************************************************)
TitleMin == 30

TitleMax == 60

DescriptionMin == 120

DescriptionMax == 160

OG_TITLE == <<"o", "g", ":", "t", "i", "t", "l", "e">>

OG_DESCRIPTION ==
    <<"o", "g", ":", "d", "e", "s", "c", "r", "i", "p", "t", "i", "o", "n">>

OG_TYPE == <<"o", "g", ":", "t", "y", "p", "e">>

OG_URL == <<"o", "g", ":", "u", "r", "l">>

OG_IMAGE == <<"o", "g", ":", "i", "m", "a", "g", "e">>

TWITTER_CARD ==
    <<"t", "w", "i", "t", "t", "e", "r", ":", "c", "a", "r", "d">>

TWITTER_TITLE ==
    <<"t", "w", "i", "t", "t", "e", "r", ":", "t", "i", "t", "l", "e">>

TWITTER_DESCRIPTION ==
    <<"t", "w", "i", "t", "t", "e", "r", ":",
      "d", "e", "s", "c", "r", "i", "p", "t", "i", "o", "n">>

TWITTER_IMAGE ==
    <<"t", "w", "i", "t", "t", "e", "r", ":", "i", "m", "a", "g", "e">>

required_og == <<OG_TITLE, OG_DESCRIPTION, OG_TYPE, OG_URL>>

required_twitter == <<TWITTER_CARD, TWITTER_TITLE, TWITTER_DESCRIPTION>>

\* [tag for tag in required if tag not in tags]
Missing(required, tags) ==
    LET absent(tag) == tag \notin DOMAIN tags
    IN  SelectSeq(required, absent)

CategoryResult(status, text, args, score) ==
    [status |-> status, message |-> [text |-> text, args |-> args],
     score |-> score]

AnalyzeTitle_off_by_one(sd) ==
    LET title == Get(sd, "title", <<>>)
    IN  IF title = <<>>
        THEN CategoryResult("error", "Missing title tag", <<>>, 0)
        ELSE IF Len(title) <= TitleMin
        THEN CategoryResult("warning", "Title too short", <<Len(title)>>, 10)
        ELSE IF Len(title) > TitleMax
        THEN CategoryResult("warning", "Title too long", <<Len(title)>>, 15)
        ELSE CategoryResult("success", "Title length optimal",
                            <<Len(title)>>, 20)

AnalyzeTitle(sd) ==
    LET title == Get(sd, "title", <<>>)
    IN  IF title = <<>>
        THEN CategoryResult("error", "Missing title tag", <<>>, 0)
        ELSE IF Len(title) < TitleMin
        THEN CategoryResult("warning", "Title too short", <<Len(title)>>, 10)
        ELSE IF Len(title) > TitleMax
        THEN CategoryResult("warning", "Title too long", <<Len(title)>>, 15)
        ELSE CategoryResult("success", "Title length optimal",
                            <<Len(title)>>, 20)

AnalyzeDescription(sd) ==
    LET description == Get(sd, "meta_description", <<>>)
    IN  IF description = <<>>
        THEN CategoryResult("error", "Missing meta description", <<>>, 0)
        ELSE IF Len(description) < DescriptionMin
        THEN CategoryResult("warning", "Description too short",
                            <<Len(description)>>, 10)
        ELSE IF Len(description) > DescriptionMax
        THEN CategoryResult("warning", "Description too long",
                            <<Len(description)>>, 15)
        ELSE CategoryResult("success", "Description length optimal",
                            <<Len(description)>>, 20)

AnalyzeOgTags_needs_values(sd) ==
    LET og_tags == Get(sd, "og_tags", EmptyDict)
        absent(tag) == tag \notin DOMAIN og_tags \/ og_tags[tag] = <<>>
        missing_og == SelectSeq(required_og, absent)
    IN  IF DOMAIN og_tags = {}
        THEN CategoryResult("error", "No Open Graph tags found", <<>>, 0)
        ELSE IF missing_og # <<>>
        THEN CategoryResult("warning", "Missing OG tags", missing_og, 10)
        ELSE CategoryResult("success",
                            "All essential Open Graph tags present", <<>>, 20)

AnalyzeOgTags(sd) ==
    LET og_tags == Get(sd, "og_tags", EmptyDict)
        missing_og == Missing(required_og, og_tags)
    IN  IF DOMAIN og_tags = {}
        THEN CategoryResult("error", "No Open Graph tags found", <<>>, 0)
        ELSE IF missing_og # <<>>
        THEN CategoryResult("warning", "Missing OG tags", missing_og, 10)
        ELSE CategoryResult("success",
                            "All essential Open Graph tags present", <<>>, 20)

AnalyzeTwitterTags(sd) ==
    LET twitter_tags == Get(sd, "twitter_tags", EmptyDict)
        missing_twitter == Missing(required_twitter, twitter_tags)
    IN  IF DOMAIN twitter_tags = {}
        THEN CategoryResult("error", "No Twitter Card tags found", <<>>, 0)
        ELSE IF missing_twitter # <<>>
        THEN CategoryResult("warning", "Missing Twitter tags",
                            missing_twitter, 10)
        ELSE CategoryResult("success",
                            "All essential Twitter Card tags present",
                            <<>>, 20)

AnalyzeH1_wrong_status(sd) ==
    LET h1_tags == Get(sd, "h1_tags", <<>>)
    IN  IF h1_tags = <<>>
        THEN CategoryResult("error", "No H1 tag found", <<>>, 0)
        ELSE IF Len(h1_tags) > 1
        THEN CategoryResult("success", "Multiple H1 tags found",
                            <<Len(h1_tags)>>, 10)
        ELSE CategoryResult("success", "Single H1 tag found (optimal)",
                            <<>>, 20)

AnalyzeH1(sd) ==
    LET h1_tags == Get(sd, "h1_tags", <<>>)
    IN  IF h1_tags = <<>>
        THEN CategoryResult("error", "No H1 tag found", <<>>, 0)
        ELSE IF Len(h1_tags) > 1
        THEN CategoryResult("warning", "Multiple H1 tags found",
                            <<Len(h1_tags)>>, 10)
        ELSE CategoryResult("success", "Single H1 tag found (optimal)",
                            <<>>, 20)

\* analyze_seo_quality on an analyzer whose seo_data is sd
analyze_seo_quality(sd) ==
    [title |-> AnalyzeTitle(sd),
     description |-> AnalyzeDescription(sd),
     og_tags |-> AnalyzeOgTags(sd),
     twitter_tags |-> AnalyzeTwitterTags(sd),
     h1_structure |-> AnalyzeH1(sd)]

\* sum(item['score'] for item in items.values()) over the keys in ks
RECURSIVE SumScores(_, _)
SumScores(items, ks) ==
    IF ks = {} THEN 0
    ELSE LET k == CHOOSE x \in ks : TRUE
         IN  items[k].score + SumScores(items, ks \ {k})

calculate_seo_score_skips_h1(analysis) ==
    SumScores(analysis, (DOMAIN analysis) \ {"h1_structure"})

calculate_seo_score(analysis) == SumScores(analysis, DOMAIN analysis)

(***************************************************************************)
(* seo_analyzer.py: get_preview_data                                       *)
(***************************************************************************)
\* bool(v) of a value that is None or a string
Truthy(v) == v.t = "str" /\ v.v # <<>>

\* a or b
Or(a, b) == IF Truthy(a) THEN a ELSE b

\* d.get(k): the value, or None
GetOrNone(d, k) == IF k \in DOMAIN d THEN PyStr(d[k]) ELSE PyNone

\* d.get(k, '')
GetOrEmpty(d, k) == IF k \in DOMAIN d THEN PyStr(d[k]) ELSE PyStr(<<>>)

SchemeChars ==
    {LowerChars[i] : i \in 1..Len(LowerChars)}
        \cup {UpperChars[i] : i \in 1..Len(UpperChars)}
        \cup {"0", "1", "2", "3", "4", "5", "6", "7", "8", "9", "+", "-", "."}

Letters ==
    {LowerChars[i] : i \in 1..Len(LowerChars)}
        \cup {UpperChars[i] : i \in 1..Len(UpperChars)}

\* the index of the first character of s that is in cs, or Len(s) + 1
FirstIn(s, cs) ==
    IF \E i \in 1..Len(s) : s[i] \in cs
    THEN CHOOSE i \in 1..Len(s) :
            s[i] \in cs /\ \A j \in 1..(i - 1) : s[j] \notin cs
    ELSE Len(s) + 1

\* urlparse(u).netloc: what follows "<scheme>://", or a leading "//", up to
\* the first of / ? #
Netloc(u) ==
    LET colon == FirstIn(u, {":"})
        has_scheme ==
            /\ colon > 1
            /\ colon <= Len(u)
            /\ u[1] \in Letters
            /\ \A i \in 1..(colon - 1) : u[i] \in SchemeChars
        rest == IF has_scheme THEN SubSeq(u, colon + 1, Len(u)) ELSE u
    IN  IF StartsWith(rest, <<"/", "/">>)
        THEN LET after == SubSeq(rest, 3, Len(rest))
             IN  SubSeq(after, 1, FirstIn(after, {"/", "?", "#"}) - 1)
        ELSE <<>>

PreviewImage_no_default(og_tags, twitter_tags) ==
    Or(GetOrNone(og_tags, OG_IMAGE), GetOrNone(twitter_tags, TWITTER_IMAGE))

PreviewImage(og_tags, twitter_tags) ==
    Or(GetOrNone(og_tags, OG_IMAGE), GetOrEmpty(twitter_tags, TWITTER_IMAGE))

PreviewTitle_presence_check(sd, og_tags, twitter_tags) ==
    IF OG_TITLE \in DOMAIN og_tags THEN PyStr(og_tags[OG_TITLE])
    ELSE IF TWITTER_TITLE \in DOMAIN twitter_tags
    THEN PyStr(twitter_tags[TWITTER_TITLE])
    ELSE PyStr(Get(sd, "title", <<>>))

PreviewTitle(sd, og_tags, twitter_tags) ==
    Or(Or(GetOrNone(og_tags, OG_TITLE),
          GetOrNone(twitter_tags, TWITTER_TITLE)),
       PyStr(Get(sd, "title", <<>>)))

PreviewDescription(sd, og_tags, twitter_tags) ==
    Or(Or(GetOrNone(og_tags, OG_DESCRIPTION),
          GetOrNone(twitter_tags, TWITTER_DESCRIPTION)),
       PyStr(Get(sd, "meta_description", <<>>)))

\* get_preview_data on an analyzer whose seo_data is sd and url is self_url
get_preview_data(sd, self_url) ==
    LET og_tags == Get(sd, "og_tags", EmptyDict)
        twitter_tags == Get(sd, "twitter_tags", EmptyDict)
    IN  [title |-> PreviewTitle(sd, og_tags, twitter_tags),
         description |-> PreviewDescription(sd, og_tags, twitter_tags),
         image |-> PreviewImage(og_tags, twitter_tags),
         url |-> self_url,
         domain |-> IF Truthy(self_url) THEN Netloc(self_url.v) ELSE <<>>]

(***************************************************************************)
(* Input strings of the URL helpers: concatenations of at most MaxParts    *)
(* pieces.  "ht" \o "tp://" makes a scheme out of two pieces and           *)
(* "ht" \o "https://" \o "tp://" one that only appears after a removal.    *)
(***************************************************************************)
MaxParts == 3

UrlPieces ==
    { HTTP, HTTPS, <<"a">>, <<"h", "t">>, <<"t", "p", ":", "/", "/">>,
      <<"H", "T", "T", "P", ":", "/", "/">> }

RECURSIVE Concats(_)
Concats(n) ==
    IF n = 0 THEN {<<>>}
    ELSE LET shorter == Concats(n - 1)
         IN  shorter \cup {s \o p : s \in shorter, p \in UrlPieces}

UrlInputs == Concats(MaxParts)

(***************************************************************************)
(* State after construction (SEOAnalyzer.__init__, main's session state,   *)
(* an empty table)                                                         *)
(***************************************************************************)
NoCache == [present |-> FALSE]

NoRet == [op |-> "none"]

InitAnalyzer == soup = PyNone /\ url = PyNone /\ seo_data = EmptyDict

InitSession == analyzed = FALSE /\ cache = NoCache

(***************************************************************************)
(* SpecUrl: the URL helpers applied to every input string                  *)
(***************************************************************************)
InitUrl ==
    /\ InitAnalyzer /\ InitSession /\ store = <<>>
    /\ arg \in UrlInputs
    /\ ret = NoRet

CallNormalize ==
    /\ ret.op = "none"
    /\ ret' = [op |-> "normalize_url", in |-> arg, val |-> normalize_url(arg)]
    /\ UNCHANGED <<soup, url, seo_data, analyzed, cache, store, arg>>

\* normalize_url applied to its own result
CallNormalizeAgain ==
    /\ ret.op = "normalize_url"
    /\ ret' = [op |-> "normalize_url_twice", in |-> ret.val,
               val |-> normalize_url(ret.val)]
    /\ UNCHANGED <<soup, url, seo_data, analyzed, cache, store, arg>>

CallVariations ==
    /\ ret.op = "none"
    /\ ret' = [op |-> "get_url_variations", in |-> arg,
               candidates |-> url_variation_candidates(arg),
               val |-> get_url_variations(arg)]
    /\ UNCHANGED <<soup, url, seo_data, analyzed, cache, store, arg>>

NextUrl == CallNormalize \/ CallNormalizeAgain \/ CallVariations

SpecUrl == InitUrl /\ [][NextUrl]_vars

(***************************************************************************)
(* SpecCore: analyze_seo_quality, calculate_seo_score and get_preview_data *)
(* on a fresh analyzer and on analyzers that have fetched and extracted a  *)
(* page.  LengthPages vary what the rubric reads (every title length up to *)
(* MaxTitleLen, the description lengths around the thresholds, the sets of *)
(* og:/twitter: keys, up to MaxH1 headings); PreviewPages vary what the    *)
(* preview reads (each source absent, empty or set).                       *)
(***************************************************************************)
MaxTitleLen == 62

MaxH1 == 2

\* the string of n characters c
Rep(c, n) == [i \in 1..n |-> c]

Meta(name, property, content) ==
    [name |-> name, property |-> property, content |-> content]

\* a <meta name=...> element with this content, or none when content is None
NameMeta(name, content) ==
    IF content = PyNone THEN <<>> ELSE <<Meta(PyStr(name), PyNone, content)>>

\* a <meta property=...> element with this content, or none
PropertyMeta(property, content) ==
    IF content = PyNone THEN <<>>
    ELSE <<Meta(PyNone, PyStr(property), content)>>

\* one <meta> element per key of ks, in the order of keys
RECURSIVE KeyMetas(_, _, _)
KeyMetas(keys, ks, by_property) ==
    IF keys = <<>> THEN <<>>
    ELSE (IF Head(keys) \in ks
          THEN IF by_property
               THEN PropertyMeta(Head(keys), PyStr(<<"x">>))
               ELSE NameMeta(Head(keys), PyStr(<<"x">>))
          ELSE <<>>) \o KeyMetas(Tail(keys), ks, by_property)

DescriptionLens ==
    {0, 1, DescriptionMin - 1, DescriptionMin, DescriptionMax,
     DescriptionMax + 1}

OgKeySets ==
    { {}, {OG_IMAGE}, {OG_TITLE, OG_DESCRIPTION, OG_TYPE},
      {OG_TITLE, OG_DESCRIPTION, OG_TYPE, OG_URL},
      {OG_TITLE, OG_DESCRIPTION, OG_TYPE, OG_URL, OG_IMAGE} }

TwitterKeySets ==
    { {}, {TWITTER_IMAGE}, {TWITTER_CARD, TWITTER_TITLE},
      {TWITTER_CARD, TWITTER_TITLE, TWITTER_DESCRIPTION} }

LengthPages ==
    { [titles |-> IF t = -1 THEN <<>> ELSE <<Rep("t", t)>>,
       metas |-> (IF d = -1 THEN <<>>
                  ELSE NameMeta(DESCRIPTION, PyStr(Rep("d", d))))
                 \o KeyMetas(required_og \o <<OG_IMAGE>>, og, TRUE)
                 \o KeyMetas(required_twitter \o <<TWITTER_IMAGE>>, tw, FALSE),
       h1s |-> [i \in 1..h |-> <<"h">>],
       canonicals |-> <<>>] :
        t \in -1..MaxTitleLen, d \in {-1} \cup DescriptionLens,
        og \in OgKeySets, tw \in TwitterKeySets, h \in 0..MaxH1 }

\* a tag value: the element is absent, or its content is '' or s
Absent_Empty_Or(s) == {PyNone, PyStr(<<>>), PyStr(s)}

PreviewPages ==
    { [titles |-> t,
       metas |-> NameMeta(DESCRIPTION, md)
                 \o PropertyMeta(OG_TITLE, ot)
                 \o PropertyMeta(OG_DESCRIPTION, od)
                 \o PropertyMeta(OG_IMAGE, oi)
                 \o NameMeta(TWITTER_TITLE, tt)
                 \o NameMeta(TWITTER_DESCRIPTION, td)
                 \o NameMeta(TWITTER_IMAGE, ti),
       h1s |-> <<>>,
       canonicals |-> <<>>] :
        t \in {<<>>, <<<<"D">>>>}, md \in {PyNone, PyStr(<<"M">>)},
        ot \in Absent_Empty_Or(<<"O">>), od \in Absent_Empty_Or(<<"P">>),
        oi \in Absent_Empty_Or(<<"I">>), tt \in Absent_Empty_Or(<<"T">>),
        td \in Absent_Empty_Or(<<"U">>), ti \in Absent_Empty_Or(<<"J">>) }

\* pages whose four required og: elements are each absent, empty or 'x'
OgValuePages ==
    { [titles |-> <<>>,
       metas |-> PropertyMeta(OG_TITLE, ot)
                 \o PropertyMeta(OG_DESCRIPTION, od)
                 \o PropertyMeta(OG_TYPE, oy)
                 \o PropertyMeta(OG_URL, ou),
       h1s |-> <<>>,
       canonicals |-> <<>>] :
        ot \in Absent_Empty_Or(<<"x">>), od \in Absent_Empty_Or(<<"x">>),
        oy \in Absent_Empty_Or(<<"x">>), ou \in Absent_Empty_Or(<<"x">>) }

CoreUrls == { <<"a">>, HTTP \o <<"b", "/", "c">> }

InitCore ==
    /\ InitSession /\ store = <<>>
    /\ arg = <<>>
    /\ ret = NoRet
    /\ \/ InitAnalyzer
       \/ /\ soup \in LengthPages
          /\ url = PyStr(normalize_url(<<"a">>))
          /\ seo_data = extract_seo_tags(soup, url)
       \/ /\ soup \in PreviewPages
          /\ \E u \in CoreUrls : url = PyStr(normalize_url(u))
          /\ seo_data = extract_seo_tags(soup, url)
       \/ /\ soup \in OgValuePages
          /\ url = PyStr(normalize_url(<<"a">>))
          /\ seo_data = extract_seo_tags(soup, url)

CallAnalyze ==
    /\ ret.op = "none"
    /\ ret' = [op |-> "analyze_seo_quality",
               val |-> analyze_seo_quality(seo_data)]
    /\ UNCHANGED <<soup, url, seo_data, analyzed, cache, store, arg>>

CallScore ==
    /\ ret.op = "analyze_seo_quality"
    /\ ret' = [op |-> "calculate_seo_score", in |-> ret.val,
               val |-> calculate_seo_score(ret.val)]
    /\ UNCHANGED <<soup, url, seo_data, analyzed, cache, store, arg>>

CallPreview ==
    /\ ret.op = "none"
    /\ ret' = [op |-> "get_preview_data",
               val |-> get_preview_data(seo_data, url)]
    /\ UNCHANGED <<soup, url, seo_data, analyzed, cache, store, arg>>

NextCore == CallAnalyze \/ CallScore \/ CallPreview

SpecCore == InitCore /\ [][NextCore]_vars

(***************************************************************************)
(* database.py: DatabaseManager over the table seo_analyses                *)
(*                                                                         *)
(* json.dumps writes a mapping as an object text (its members in order)    *)
(* and a list as an array text; json.loads reads them back.  db_ok says    *)
(* whether get_cursor and the statement succeed in this call.              *)
(***************************************************************************)
\* the keys of a dict in the order json.dumps writes them
RECURSIVE KeyOrder(_)
KeyOrder(ks) ==
    IF ks = {} THEN <<>>
    ELSE LET k == CHOOSE x \in ks : TRUE
         IN  <<k>> \o KeyOrder(ks \ {k})

\* json.dumps(d) for a dict of strings
DumpsDict(d) ==
    LET keys == KeyOrder(DOMAIN d)
    IN  [json |-> "object", values |-> "strings",
         members |-> [i \in 1..Len(keys) |-> <<keys[i], d[keys[i]]>>]]

\* json.dumps(xs) for a list of strings
DumpsList(xs) == [json |-> "array", items |-> xs]

AnalysisKeys ==
    <<"title", "description", "og_tags", "twitter_tags", "h1_structure">>

\* json.dumps(analysis)
DumpsAnalysis(analysis) ==
    LET present(k) == k \in DOMAIN analysis
        keys == SelectSeq(AnalysisKeys, present)
    IN  [json |-> "object", values |-> "objects",
         members |->
            [i \in 1..Len(keys) |->
                <<keys[i],
                  [json |-> "object", values |-> "mixed",
                   members |-> <<analysis[keys[i]].status,
                                 analysis[keys[i]].message,
                                 analysis[keys[i]].score>>]>>]]

\* json.loads of an object text whose values are strings
LoadsDict(text) ==
    LET m == text.members
    IN  [k \in {m[i][1] : i \in 1..Len(m)} |->
            m[CHOOSE i \in 1..Len(m) :
                m[i][1] = k /\ \A j \in (i + 1)..Len(m) : m[j][1] # k][2]]

\* json.loads of an array text
LoadsList(text) == text.items

\* json.loads of the text of an analysis
LoadsAnalysis(text) ==
    LET m == text.members
    IN  [k \in {m[i][1] : i \in 1..Len(m)} |->
            LET c == m[CHOOSE i \in 1..Len(m) : m[i][1] = k][2].members
            IN  [status |-> c[1], message |-> c[2], score |-> c[3]]]

\* the row save_analysis inserts; analyzed_at is assigned by the server
NewRow(sd, analysis, score, now) ==
    LET u == Get(sd, "url", PyStr(<<>>)).v
    IN  [url |-> u,
         domain |-> Netloc(u),
         title |-> Get(sd, "title", <<>>),
         meta_description |-> Get(sd, "meta_description", <<>>),
         meta_keywords |-> Get(sd, "meta_keywords", <<>>),
         og_tags |-> DumpsDict(Get(sd, "og_tags", EmptyDict)),
         twitter_tags |-> DumpsDict(Get(sd, "twitter_tags", EmptyDict)),
         h1_tags |-> DumpsList(Get(sd, "h1_tags", <<>>)),
         canonical |-> Get(sd, "canonical", <<>>),
         seo_score |-> score,
         analysis_results |-> DumpsAnalysis(analysis),
         analyzed_at |-> now]

save_analysis_raises(rows, sd, analysis, score, db_ok) ==
    IF db_ok
    THEN [rows |-> Append(rows, NewRow(sd, analysis, score, Len(rows) + 1)),
          val |-> TRUE, printed |-> "", raised |-> FALSE,
          doc |-> sd, analysis |-> analysis, score |-> score]
    ELSE [rows |-> rows, val |-> FALSE,
          printed |-> "", raised |-> TRUE,
          doc |-> sd, analysis |-> analysis, score |-> score]

save_analysis_no_rollback(rows, sd, analysis, score, db_ok) ==
    [rows |-> Append(rows, NewRow(sd, analysis, score, Len(rows) + 1)),
     val |-> db_ok,
     printed |-> IF db_ok THEN "" ELSE "Failed to save analysis",
     raised |-> FALSE,
     doc |-> sd, analysis |-> analysis, score |-> score]

\* save_analysis: the table afterwards, the value returned, what is printed
\* and whether an exception leaves the method (none does: the except branch
\* returns False)
save_analysis(rows, sd, analysis, score, db_ok) ==
    IF db_ok
    THEN [rows |-> Append(rows, NewRow(sd, analysis, score, Len(rows) + 1)),
          val |-> TRUE, printed |-> "", raised |-> FALSE,
          doc |-> sd, analysis |-> analysis, score |-> score]
    ELSE [rows |-> rows, val |-> FALSE,
          printed |-> "Failed to save analysis", raised |-> FALSE,
          doc |-> sd, analysis |-> analysis, score |-> score]

\* the first n entries of xs
Take(xs, n) == SubSeq(xs, 1, IF n < Len(xs) THEN n ELSE Len(xs))

\* the rows, most recent first
ByAnalyzedAtDesc(rows) == [i \in 1..Len(rows) |-> rows[Len(rows) + 1 - i]]

\* get_recent_analyses(limit): the list returned and what is printed
get_recent_analyses(rows, limit, db_ok) ==
    IF db_ok
    THEN LET results == Take(ByAnalyzedAtDesc(rows), limit)
         IN  [val |-> [i \in 1..Len(results) |->
                          [url |-> results[i].url,
                           domain |-> results[i].domain,
                           title |-> results[i].title,
                           seo_score |-> results[i].seo_score,
                           analyzed_at |-> results[i].analyzed_at]],
              printed |-> ""]
    ELSE [val |-> <<>>, printed |-> "Failed to fetch analyses"]

\* json.loads(text)
json_loads(text) ==
    IF text.json = "array" THEN LoadsList(text)
    ELSE IF text.values = "strings" THEN LoadsDict(text)
    ELSE LoadsAnalysis(text)

\* what the driver hands over for a JSON column: the text (a text column)
\* or, when parsed, the value it has already parsed (a json column)
Column(text, parsed) ==
    IF parsed THEN [t |-> "parsed", v |-> json_loads(text)]
    ELSE [t |-> "str", v |-> text]

safe_json_loads(data) ==
    IF data.t = "None" THEN EmptyDict
    ELSE IF data.t = "parsed" THEN data.v
    ELSE json_loads(data.v)

\* bool(data) of a JSON column
ColumnTruthy(data) ==
    \/ data.t = "str"
    \/ data.t = "parsed" /\ DOMAIN data.v # {}

\* s or ''
OrEmpty(s) == IF s # <<>> THEN s ELSE <<>>

\* the dict get_analysis_by_url builds from the row it fetched
FoundDict(result, parsed) ==
    [t |-> "dict",
     v |-> [url |-> result.url,
            title |-> OrEmpty(result.title),
            meta_description |-> OrEmpty(result.meta_description),
            og_tags |-> safe_json_loads(Column(result.og_tags, parsed)),
            twitter_tags |->
                safe_json_loads(Column(result.twitter_tags, parsed)),
            h1_tags |-> IF ColumnTruthy(Column(result.h1_tags, parsed))
                        THEN safe_json_loads(Column(result.h1_tags, parsed))
                        ELSE <<>>,
            seo_score |-> result.seo_score,
            analysis_results |->
                safe_json_loads(Column(result.analysis_results, parsed)),
            analyzed_at |-> result.analyzed_at]]

get_analysis_by_url_oldest_first(rows, u, db_ok, parsed) ==
    IF db_ok
    THEN LET unique_variations == get_url_variations(u)
             matches ==
                {i \in 1..Len(rows) :
                    \E v \in 1..Len(unique_variations) :
                        rows[i].url = unique_variations[v]}
         IN  IF matches # {}
             THEN LET latest ==
                        CHOOSE i \in matches : \A j \in matches :
                            rows[i].analyzed_at <= rows[j].analyzed_at
                  IN  [val |-> FoundDict(rows[latest], parsed), printed |-> ""]
             ELSE [val |-> PyNone, printed |-> ""]
    ELSE [val |-> PyNone, printed |-> "Failed to fetch analysis for URL"]

\* get_analysis_by_url: the value returned and what is printed
get_analysis_by_url(rows, u, db_ok, parsed) ==
    IF db_ok
    THEN LET unique_variations == get_url_variations(u)
             matches ==
                {i \in 1..Len(rows) :
                    \E v \in 1..Len(unique_variations) :
                        rows[i].url = unique_variations[v]}
         IN  IF matches # {}
             THEN LET latest ==
                        CHOOSE i \in matches : \A j \in matches :
                            rows[j].analyzed_at <= rows[i].analyzed_at
                  IN  [val |-> FoundDict(rows[latest], parsed), printed |-> ""]
             ELSE [val |-> PyNone, printed |-> ""]
    ELSE [val |-> PyNone, printed |-> "Failed to fetch analysis for URL"]

(***************************************************************************)
(* SpecDb: the DatabaseManager called directly, with documents whose url   *)
(* is any of DbUrls (a caller of save_analysis passes any seo_data)        *)
(***************************************************************************)
MaxRecords == 2

\* a page with every kind of tag, and a page with none
PageRich ==
    [titles |-> << <<" ", "H", "i", "\n">> >>,
     metas |-> << Meta(PyStr(<<"D", "e", "s", "c", "r", "i", "p", "t", "i",
                               "o", "n">>), PyNone, PyStr(<<"M">>)),
                  Meta(PyStr(KEYWORDS), PyNone, PyStr(<<"k">>)),
                  Meta(PyNone, PyStr(OG_TITLE), PyStr(<<"O">>)),
                  Meta(PyNone, PyStr(OG_IMAGE), PyStr(<<>>)),
                  Meta(PyStr(TWITTER_CARD), PyNone, PyStr(<<"s">>)),
                  Meta(PyStr(<<"v", "i", "e", "w">>), PyNone, PyNone) >>,
     h1s |-> << <<"H", " ">>, <<"G">> >>,
     canonicals |-> << [href |-> PyStr(<<"c">>)] >>]

PageBare == [titles |-> <<>>, metas |-> <<>>, h1s |-> <<>>, canonicals |-> <<>>]

Pages == {PageRich, PageBare}

UrlHosts == { <<"a">>, <<"a", "/">> \o HTTP \o <<"b">> }

DbUrls == {p \o h : p \in {<<>>, HTTP, HTTPS}, h \in UrlHosts}

\* the documents extraction yields for these pages under these urls
DbDocs == {extract_seo_tags(page, PyStr(u)) : page \in Pages, u \in DbUrls}

InitDb ==
    /\ InitAnalyzer /\ InitSession
    /\ store = <<>>
    /\ arg = <<>>
    /\ ret = NoRet

DbSave ==
    /\ Len(store) < MaxRecords
    /\ \E sd \in DbDocs, db_ok \in BOOLEAN :
          LET analysis == analyze_seo_quality(sd)
              r == save_analysis(store, sd, analysis,
                                 calculate_seo_score(analysis), db_ok)
          IN  /\ store' = r.rows
              /\ arg' = sd.url.v
              /\ ret' = [op |-> "save_analysis", val |-> r.val,
                         printed |-> r.printed, doc |-> r.doc,
                         analysis |-> r.analysis, score |-> r.score]
    /\ UNCHANGED <<soup, url, seo_data, analyzed, cache>>

DbLookup ==
    /\ \E u \in DbUrls, db_ok \in BOOLEAN, parsed \in BOOLEAN :
          LET r == get_analysis_by_url(store, u, db_ok, parsed)
          IN  /\ arg' = u
              /\ ret' = [op |-> "get_analysis_by_url", val |-> r.val,
                         printed |-> r.printed]
    /\ UNCHANGED <<soup, url, seo_data, analyzed, cache, store>>

DbRecent ==
    /\ \E limit \in {1, 10}, db_ok \in BOOLEAN :
          LET r == get_recent_analyses(store, limit, db_ok)
          IN  /\ arg' = <<>>
              /\ ret' = [op |-> "get_recent_analyses", val |-> r.val,
                         printed |-> r.printed]
    /\ UNCHANGED <<soup, url, seo_data, analyzed, cache, store>>

NextDb == DbSave \/ DbLookup \/ DbRecent

SpecDb == InitDb /\ [][NextDb]_vars

(***************************************************************************)
(* seo_analyzer.py fetch_html and app.py main: one action per script run   *)
(***************************************************************************)
\* how requests.get, raise_for_status and the parse end
RequestExceptions == {"ConnectionError", "Timeout", "HTTPError"}

FetchOutcomes == {"ok", "ParserError"} \cup RequestExceptions

NoError == [text |-> "", url |-> <<>>, cause |-> ""]

fetch_html_sets_url_first(self_soup, self_url, u, outcome, page) ==
    LET normalized == normalize_url(u)
    IN  IF outcome = "ok"
        THEN [raised |-> FALSE, soup |-> page, url |-> PyStr(normalized),
              requests |-> 1, error |-> NoError]
        ELSE [raised |-> TRUE, soup |-> self_soup, url |-> PyStr(normalized),
              requests |-> 1,
              error |-> [text |-> "Network error while fetching",
                         url |-> normalized, cause |-> outcome]]

\* fetch_html(u) on an analyzer whose soup and url are self_soup, self_url:
\* the fields afterwards, the requests sent and the exception raised
fetch_html(self_soup, self_url, u, outcome, page) ==
    LET normalized == normalize_url(u)
    IN  IF outcome = "ok"
        THEN [raised |-> FALSE, soup |-> page, url |-> PyStr(normalized),
              requests |-> 1, error |-> NoError]
        ELSE IF outcome \in RequestExceptions
        THEN [raised |-> TRUE, soup |-> self_soup, url |-> self_url,
              requests |-> 1,
              error |-> [text |-> "Network error while fetching",
                         url |-> normalized, cause |-> outcome]]
        ELSE [raised |-> TRUE, soup |-> self_soup, url |-> self_url,
              requests |-> 1,
              error |-> [text |-> "Failed to analyze",
                         url |-> normalized, cause |-> outcome]]

cleanup_cache_keeps_cache(c) == c

\* cleanup_cache
cleanup_cache(c) == NoCache

\* main, "Display results if analysis is complete": the cache afterwards
FillCache(is_analyzed, sd, self_url, c) ==
    IF is_analyzed /\ DOMAIN sd # {}
    THEN IF ~c.present \/ c.url # self_url
         THEN LET analysis == analyze_seo_quality(sd)
              IN  [present |-> TRUE,
                   analysis |-> analysis,
                   score |-> calculate_seo_score(analysis),
                   preview |-> get_preview_data(sd, self_url),
                   url |-> self_url]
         ELSE c
    ELSE c

\* whether the run renders the result tabs
Displays(is_analyzed, sd) == is_analyzed /\ DOMAIN sd # {}

HistoryLimit == 20

display_interactive_preview_editing_in_place(preview_data, tab_type, edited_title, edited_description) ==
    LET changed == \/ edited_title # preview_data.title
                   \/ edited_description # preview_data.description
        edited == [preview_data EXCEPT !.title = edited_title,
                                       !.description = edited_description]
    IN  [preview_data |-> IF changed THEN edited ELSE preview_data,
         rendered |-> changed,
         edited_preview |-> IF changed THEN edited ELSE preview_data]

\* display_interactive_preview_editing with these values in its two text
\* widgets: the dict it was given afterwards, whether an updated preview is
\* rendered, and the preview rendered
display_interactive_preview_editing(preview_data, tab_type, edited_title, edited_description) ==
    LET changed == \/ edited_title # preview_data.title
                   \/ edited_description # preview_data.description
        edited_preview == [preview_data EXCEPT
                              !.title = edited_title,
                              !.description = edited_description]
    IN  [preview_data |-> preview_data,
         rendered |-> changed,
         edited_preview |-> IF changed THEN edited_preview ELSE preview_data]

AppUrls == { <<"a">>, HTTPS \o <<"a">>, HTTP \o <<"b">> }

Init ==
    /\ InitAnalyzer /\ InitSession
    /\ store = <<>>
    /\ arg = <<>>
    /\ ret = NoRet

\* a run with the Analyze button pressed and a non-empty URL whose fetch
\* raises: the message is shown and the run goes on to the display section
AnalyzeFetchFails ==
    \E u \in AppUrls, outcome \in FetchOutcomes \ {"ok"} :
        LET f == fetch_html(soup, url, u, outcome, PageBare)
            c == FillCache(analyzed, seo_data, f.url, cleanup_cache(cache))
        IN  /\ f.raised
            /\ soup' = f.soup
            /\ url' = f.url
            /\ cache' = c
            /\ arg' = u
            /\ ret' = [op |-> "analyze", fetch |-> outcome,
                       requests |-> f.requests, st_error |-> f.error,
                       saved |-> FALSE,
                       displays |-> Displays(analyzed, seo_data)]
            /\ UNCHANGED <<seo_data, analyzed, store>>

\* a run with the Analyze button pressed whose fetch succeeds: extraction,
\* analysis, save, analyzed = True, and the rerun st.rerun() starts.  Were
\* save_analysis to raise, main's except branch would show the message and
\* the run would go on to the display section without setting analyzed.
AnalyzeFetchOk ==
    \E u \in AppUrls, page \in Pages, save_ok \in BOOLEAN :
        LET f == fetch_html(soup, url, u, "ok", page)
            sd == extract_seo_tags(f.soup, f.url)
            analysis == analyze_seo_quality(sd)
            score == calculate_seo_score(analysis)
            s == save_analysis(store, sd, analysis, score, save_ok)
            is_analyzed == IF s.raised THEN analyzed ELSE TRUE
            c == FillCache(is_analyzed, sd, f.url, cleanup_cache(cache))
        IN  /\ ~f.raised
            /\ save_ok => Len(store) < MaxRecords
            /\ soup' = f.soup
            /\ url' = f.url
            /\ seo_data' = sd
            /\ store' = s.rows
            /\ analyzed' = is_analyzed
            /\ cache' = c
            /\ arg' = u
            /\ ret' = [op |-> "analyze", fetch |-> "ok",
                       requests |-> f.requests,
                       st_error |-> IF s.raised
                                    THEN [text |-> "Failed to save analysis",
                                          url |-> <<>>, cause |-> ""]
                                    ELSE f.error,
                       saved |-> s.val,
                       displays |-> Displays(is_analyzed, sd)]

\* a run without an analysis and with the preview widgets left as they
\* are: any other widget interaction, or the Analyze button with an empty
\* URL
Rerun ==
    /\ cache' = FillCache(analyzed, seo_data, url, cache)
    /\ arg' = <<>>
    /\ ret' = [op |-> "rerun", displays |-> Displays(analyzed, seo_data)]
    /\ UNCHANGED <<soup, url, seo_data, analyzed, store>>

\* a run with the Find Analysis button of the history tab pressed
LookupClick ==
    /\ Displays(analyzed, seo_data)
    /\ \E u \in AppUrls, lookup_ok \in BOOLEAN, parsed \in BOOLEAN :
          LET r == get_analysis_by_url(store, u, lookup_ok, parsed)
          IN  /\ cache' = FillCache(analyzed, seo_data, url, cache)
              /\ arg' = u
              /\ ret' = [op |-> "lookup", val |-> r.val,
                         printed |-> r.printed,
                         displays |-> TRUE]
    /\ UNCHANGED <<soup, url, seo_data, analyzed, store>>

\* display_analysis_history, "Get recent analyses": the listing that ends
\* every run that renders the tabs, as a step of its own
HistoryListing ==
    /\ Displays(analyzed, seo_data)
    /\ \E list_ok \in BOOLEAN :
          LET r == get_recent_analyses(store, HistoryLimit, list_ok)
          IN  /\ cache' = FillCache(analyzed, seo_data, url, cache)
              /\ arg' = <<>>
              /\ ret' = [op |-> "history", val |-> r.val,
                         printed |-> r.printed,
                         displays |-> TRUE]
    /\ UNCHANGED <<soup, url, seo_data, analyzed, store>>

\* what a preview tab's two text widgets hold: the preview's own values, or
\* an edited title, or an edited description
WidgetInputs(preview_data) ==
    { [title |-> preview_data.title, description |-> preview_data.description],
      [title |-> PyStr(<<"E">>), description |-> preview_data.description],
      [title |-> preview_data.title, description |-> PyStr(<<"F">>)] }

\* a run after a text widget of the Google or of the social preview tab was
\* edited: main calls display_interactive_preview_editing for the one tab
\* and then for the other, with the same dict
EditPreview ==
    /\ Displays(analyzed, seo_data)
    /\ LET c == FillCache(analyzed, seo_data, url, cache)
       IN  \E google_input \in WidgetInputs(c.preview),
              social_input \in {w \in WidgetInputs(c.preview) :
                                   w.description = c.preview.description} :
              LET g == display_interactive_preview_editing(
                           c.preview, "google", google_input.title,
                           google_input.description)
                  s == display_interactive_preview_editing(
                           g.preview_data, "social", social_input.title,
                           social_input.description)
              IN  /\ g.rendered \/ s.rendered
                  /\ cache' = [c EXCEPT !.preview = s.preview_data]
                  /\ arg' = <<>>
                  /\ ret' = [op |-> "edit_preview",
                             google |-> [rendered |-> g.rendered,
                                         preview |-> g.edited_preview],
                             social |-> [rendered |-> s.rendered,
                                         preview |-> s.edited_preview],
                             displays |-> TRUE]
    /\ UNCHANGED <<soup, url, seo_data, analyzed, store>>

Next ==
    \/ AnalyzeFetchFails
    \/ AnalyzeFetchOk
    \/ Rerun
    \/ LookupClick
    \/ HistoryListing
    \/ EditPreview

Spec == Init /\ [][Next]_vars

(***************************************************************************)
(* SpecExtract: extract_seo_tags on an analyzer that has fetched a page    *)
(* (or none): pages of at most MaxMetas <meta> elements whose name and     *)
(* property meet several branches of the loop, in either letter case       *)
(***************************************************************************)
MaxMetas == 2

ExtractMetaElements ==
    { Meta(PyStr(DESCRIPTION), PyStr(OG_TITLE), PyStr(<<"M">>)),
      Meta(PyStr(<<"K", "e", "y", "w", "o", "r", "d", "s">>), PyStr(OG_URL),
           PyStr(<<"k">>)),
      Meta(PyNone, PyStr(<<"O", "G", ":", "T", "i", "t", "l", "e">>),
           PyStr(<<"O">>)),
      Meta(PyStr(TWITTER_CARD), PyStr(OG_TYPE), PyStr(<<"c">>)),
      Meta(PyStr(TWITTER_CARD), PyNone, PyNone),
      Meta(PyStr(<<"v", "i", "e", "w">>), PyStr(<<"a", ":", "t">>),
           PyStr(<<"v">>)) }

RECURSIVE MetaSeqs(_)
MetaSeqs(n) ==
    IF n = 0 THEN {<<>>}
    ELSE LET shorter == MetaSeqs(n - 1)
         IN  shorter \cup {Append(s, m) : s \in shorter,
                                          m \in ExtractMetaElements}

ExtractPages ==
    { [titles |-> <<>>, metas |-> ms, h1s |-> <<>>, canonicals |-> <<>>] :
        ms \in MetaSeqs(MaxMetas) }

InitExtract ==
    /\ InitSession /\ store = <<>>
    /\ arg = <<>>
    /\ ret = NoRet
    /\ seo_data = EmptyDict
    /\ \/ soup = PyNone /\ url = PyNone
       \/ /\ soup \in ExtractPages
          /\ \E u \in CoreUrls : url = PyStr(normalize_url(u))

\* extract_seo_tags(): {} and no change when nothing has been fetched
CallExtract ==
    /\ IF soup = PyNone
       THEN /\ ret' = [op |-> "extract_seo_tags", val |-> EmptyDict]
            /\ UNCHANGED seo_data
       ELSE /\ seo_data' = extract_seo_tags(soup, url)
            /\ ret' = [op |-> "extract_seo_tags", val |-> seo_data']
    /\ UNCHANGED <<soup, url, analyzed, cache, store, arg>>

NextExtract == CallExtract

SpecExtract == InitExtract /\ [][NextExtract]_vars

(***************************************************************************)
(* SpecAnalyzer: fetch_html, extract_seo_tags and get_preview_data called  *)
(* on one SEOAnalyzer in any order                                         *)
(***************************************************************************)
CallFetch ==
    /\ \E u \in AppUrls, outcome \in FetchOutcomes, page \in Pages :
          LET f == fetch_html(soup, url, u, outcome, page)
          IN  /\ soup' = f.soup
              /\ url' = f.url
              /\ arg' = u
              /\ ret' = [op |-> "fetch_html", raised |-> f.raised,
                         error |-> f.error]
    /\ UNCHANGED <<seo_data, analyzed, cache, store>>

CallPreviewData ==
    /\ ret' = [op |-> "get_preview_data",
               val |-> get_preview_data(seo_data, url)]
    /\ UNCHANGED <<soup, url, seo_data, analyzed, cache, store, arg>>

NextAnalyzer == CallFetch \/ CallExtract \/ CallPreviewData

SpecAnalyzer == Init /\ [][NextAnalyzer]_vars

(***************************************************************************)
(* C4: normalize_url(s) is "https://" + s when s starts with neither       *)
(* "http://" nor "https://", and s itself otherwise; applying it to its    *)
(* own result changes nothing.                                             *)
(***************************************************************************)
HasScheme(s) ==
    \/ \E n \in 0..Len(s) : s = HTTP \o SubSeq(s, Len(s) - n + 1, Len(s))
    \/ \E n \in 0..Len(s) : s = HTTPS \o SubSeq(s, Len(s) - n + 1, Len(s))

C4_Normalize ==
    /\ ret.op = "normalize_url" =>
          IF HasScheme(arg) THEN ret.val = arg
          ELSE /\ Len(ret.val) = Len(arg) + 8
               /\ SubSeq(ret.val, 1, 8) = HTTPS
               /\ SubSeq(ret.val, 9, Len(ret.val)) = arg
    /\ ret.op = "normalize_url_twice" => ret.val = ret.in

\* a non-empty input without a scheme has been normalized twice
C4_Witness ==
    /\ ret.op = "normalize_url_twice"
    /\ ~HasScheme(arg)
    /\ Len(arg) > 0

(***************************************************************************)
(* C5: get_url_variations(s) has between 1 and 3 entries, pairwise         *)
(* distinct, and its first entry is s.                                     *)
(***************************************************************************)
C5_Variations ==
    ret.op = "get_url_variations" =>
        /\ Len(ret.val) >= 1
        /\ Len(ret.val) <= 3
        /\ \A i, j \in 1..Len(ret.val) : i # j => ret.val[i] # ret.val[j]
        /\ ret.val[1] = arg

\* an input with a scheme, where de-duplication removed a candidate
C5_Witness ==
    /\ ret.op = "get_url_variations"
    /\ HasScheme(arg)
    /\ Len(ret.val) = 2

(***************************************************************************)
(* C1: the score of an analysis is an integer from 0 to 100 and is the sum *)
(* of the five category scores; on an analyzer that has extracted nothing  *)
(* it is 0.                                                                *)
(***************************************************************************)
C1_ScoreRange ==
    ret.op = "calculate_seo_score" =>
        /\ ret.val \in 0..100
        /\ ret.val = ret.in.title.score + ret.in.description.score
                      + ret.in.og_tags.score + ret.in.twitter_tags.score
                      + ret.in.h1_structure.score
        /\ DOMAIN seo_data = {} => ret.val = 0

\* every category at its best: the score reaches the upper end of the range
C1_Witness ==
    /\ ret.op = "calculate_seo_score"
    /\ ret.val = 100

C3_StatusScore ==
    ret.op = "analyze_seo_quality" =>
        /\ DOMAIN ret.val =
              {"title", "description", "og_tags", "twitter_tags",
               "h1_structure"}
        /\ \A k \in DOMAIN ret.val :
              LET r == ret.val[k]
              IN  /\ r.status \in {"error", "warning", "success"}
                  /\ r.score \in {0, 10, 15, 20}
                  /\ r.status = "error" => r.score = 0
                  /\ r.status = "warning" => r.score \in {10, 15}
                  /\ r.status = "success" => r.score = 20

\* an analysis in which all three statuses and both warning scores occur
C3_Witness ==
    /\ ret.op = "analyze_seo_quality"
    /\ ret.val.title.score = 15
    /\ ret.val.h1_structure.status = "warning"
    /\ ret.val.og_tags.status = "error"
    /\ ret.val.twitter_tags.status = "success"

(***************************************************************************)
(* C8: the preview title is og:title when that value is non-empty, else    *)
(* twitter:title when non-empty, else the document title, else ''; the     *)
(* preview description likewise over og:description, twitter:description   *)
(* and meta_description.  A key whose value is '' falls through.           *)
(***************************************************************************)
\* the first non-empty string among tags[1][keys[1]], tags[2][keys[2]], ...,
\* else the document field, else ''
FirstNonEmpty(og, og_key, tw, tw_key, sd, field) ==
    IF og_key \in DOMAIN og /\ Len(og[og_key]) > 0 THEN og[og_key]
    ELSE IF tw_key \in DOMAIN tw /\ Len(tw[tw_key]) > 0 THEN tw[tw_key]
    ELSE IF field \in DOMAIN sd THEN sd[field]
    ELSE <<>>

C8_PreviewFallback ==
    ret.op = "get_preview_data" =>
        LET og == IF DOMAIN seo_data = {} THEN <<>> ELSE seo_data.og_tags
            tw == IF DOMAIN seo_data = {} THEN <<>> ELSE seo_data.twitter_tags
        IN  /\ ret.val.title =
                  PyStr(FirstNonEmpty(og, OG_TITLE, tw, TWITTER_TITLE,
                                      seo_data, "title"))
            /\ ret.val.description =
                  PyStr(FirstNonEmpty(og, OG_DESCRIPTION, tw,
                                      TWITTER_DESCRIPTION, seo_data,
                                      "meta_description"))

\* og:title = '', twitter:title = 'T', title = 'D': the preview title is 'T'
C8_Witness ==
    /\ ret.op = "get_preview_data"
    /\ DOMAIN seo_data # {}
    /\ OG_TITLE \in DOMAIN seo_data.og_tags
    /\ seo_data.og_tags[OG_TITLE] = <<>>
    /\ TWITTER_TITLE \in DOMAIN seo_data.twitter_tags
    /\ seo_data.twitter_tags[TWITTER_TITLE] = <<"T">>
    /\ seo_data.title = <<"D">>
    /\ ret.val.title = PyStr(<<"T">>)

(***************************************************************************)
(* C9: the preview image is og:image when that value is non-empty; else    *)
(* the value of twitter:image when that key is present, even if it is '';  *)
(* else ''.  It is always a string.                                        *)
(***************************************************************************)
C9_PreviewImage ==
    ret.op = "get_preview_data" =>
        LET og == IF DOMAIN seo_data = {} THEN <<>> ELSE seo_data.og_tags
            tw == IF DOMAIN seo_data = {} THEN <<>> ELSE seo_data.twitter_tags
        IN  /\ ret.val.image.t = "str"
            /\ ret.val.image.v =
                  IF OG_IMAGE \in DOMAIN og /\ Len(og[OG_IMAGE]) > 0
                  THEN og[OG_IMAGE]
                  ELSE IF TWITTER_IMAGE \in DOMAIN tw THEN tw[TWITTER_IMAGE]
                  ELSE <<>>

\* og_tags = {} and twitter_tags = {twitter:image: ''}: the image is ''
C9_Witness ==
    /\ ret.op = "get_preview_data"
    /\ DOMAIN seo_data # {}
    /\ DOMAIN seo_data.og_tags = {}
    /\ DOMAIN seo_data.twitter_tags = {TWITTER_IMAGE}
    /\ seo_data.twitter_tags[TWITTER_IMAGE] = <<>>
    /\ ret.val.image = PyStr(<<>>)

(***************************************************************************)
(* C6: when a record whose url is a scheme-less string s is stored, a      *)
(* lookup that reaches the table finds a record for each of the queries    *)
(* "https://" + s, "http://" + s and s.                                    *)
(***************************************************************************)
C6_SchemelessFound ==
    (/\ ret.op = "get_analysis_by_url"
     /\ ret.printed = ""
     /\ \E i \in 1..Len(store) :
           /\ ~HasScheme(store[i].url)
           /\ arg \in {HTTPS \o store[i].url, HTTP \o store[i].url,
                       store[i].url})
        => ret.val.t = "dict"

C10_FetchFailureAtomic ==
    [][(ret'.op = "analyze" /\ ret'.fetch # "ok")
       => /\ store' = store
          /\ soup' = soup
          /\ url' = url
          /\ seo_data' = seo_data
          /\ ~ret'.saved
          /\ ret'.requests = 1
          /\ ret'.st_error.text # ""]_vars

\* a fetch has failed on an analyzer that holds the document of an earlier,
\* saved analysis of another URL
C10_Witness ==
    /\ ret.op = "analyze"
    /\ ret.fetch = "Timeout"
    /\ Len(store) > 0
    /\ DOMAIN seo_data # {}
    /\ url # PyStr(normalize_url(arg))

WithoutLeadingScheme(s) ==
    IF Len(s) >= 8 /\ SubSeq(s, 1, 8) = HTTPS THEN SubSeq(s, 9, Len(s))
    ELSE IF Len(s) >= 7 /\ SubSeq(s, 1, 7) = HTTP THEN SubSeq(s, 8, Len(s))
    ELSE s

C14_Candidates ==
    ret.op = "get_url_variations" =>
        ret.candidates =
            <<arg, IF HasScheme(arg) THEN arg ELSE HTTPS \o arg,
              WithoutLeadingScheme(arg)>>

(***************************************************************************)
(* C12: what get_analysis_by_url returns tells a lookup that matched no    *)
(* stored record from a lookup that failed (the connection or the query):  *)
(* the two never return the same value.                                    *)
(***************************************************************************)
C12_MissVersusFailure ==
    [][(/\ ret.op = "get_analysis_by_url"
        /\ ret.printed = ""
        /\ ret.val.t = "None"
        /\ ret'.op = "get_analysis_by_url"
        /\ ret'.printed # "")
       => ret'.val # ret.val]_vars

(***************************************************************************)
(* C16: the og_tags category looks at keys only: no og tag at all is       *)
(* error/0, some og tag but not all of og:title, og:description, og:type,  *)
(* og:url is warning/10, and all four keys present is success/20 whatever  *)
(* their values, empty strings included.                                   *)
(***************************************************************************)
C16_OgByKeys ==
    ret.op = "analyze_seo_quality" =>
        LET og == IF DOMAIN seo_data = {} THEN <<>> ELSE seo_data.og_tags
            r == ret.val.og_tags
            required == {OG_TITLE, OG_DESCRIPTION, OG_TYPE, OG_URL}
        IN  /\ DOMAIN og = {} => r.status = "error" /\ r.score = 0
            /\ (DOMAIN og # {} /\ ~(required \subseteq DOMAIN og))
                  => r.status = "warning" /\ r.score = 10
            /\ required \subseteq DOMAIN og
                  => r.status = "success" /\ r.score = 20

\* all four required keys extracted with empty values, analyzed as success
C16_Witness ==
    /\ ret.op = "analyze_seo_quality"
    /\ DOMAIN seo_data # {}
    /\ DOMAIN seo_data.og_tags = {OG_TITLE, OG_DESCRIPTION, OG_TYPE, OG_URL}
    /\ \A k \in DOMAIN seo_data.og_tags : seo_data.og_tags[k] = <<>>
    /\ ret.val.og_tags.status = "success"

(***************************************************************************)
(* C15: extraction lets each <meta> element update at most one field, the  *)
(* one of the first condition it meets in the order name = 'description',  *)
(* name = 'keywords', property starts with 'og:', name starts with         *)
(* 'twitter:' (name and property lower-cased); an element meeting none     *)
(* changes nothing.                                                        *)
(***************************************************************************)
\* the branch an element takes
MetaBranch(meta) ==
    LET name == IF meta.name.t = "None" THEN <<>> ELSE Lower(meta.name.v)
        property == IF meta.property.t = "None" THEN <<>>
                    ELSE Lower(meta.property.v)
    IN  IF name = DESCRIPTION THEN "description"
        ELSE IF name = KEYWORDS THEN "keywords"
        ELSE IF Len(property) >= 3 /\ SubSeq(property, 1, 3) = OG_PREFIX
        THEN "og"
        ELSE IF Len(name) >= 8 /\ SubSeq(name, 1, 8) = TWITTER_PREFIX
        THEN "twitter"
        ELSE "none"

\* the last element of metas that takes this branch (and, for 'og' and
\* 'twitter', has this lower-cased key), or 0
LastOf(metas, branch, key) ==
    LET hits == { i \in 1..Len(metas) :
                    /\ MetaBranch(metas[i]) = branch
                    /\ branch = "og" => Lower(metas[i].property.v) = key
                    /\ branch = "twitter" => Lower(metas[i].name.v) = key }
    IN  IF hits = {} THEN 0
        ELSE CHOOSE i \in hits : \A j \in hits : j <= i

ContentOf(metas, i) ==
    IF i = 0 \/ metas[i].content.t = "None" THEN <<>> ELSE metas[i].content.v

C15_FirstMatchingBranch ==
    (ret.op = "extract_seo_tags" /\ soup # PyNone) =>
        LET metas == soup.metas
            og_keys == { Lower(metas[i].property.v) :
                           i \in { j \in 1..Len(metas) :
                                     MetaBranch(metas[j]) = "og" } }
            tw_keys == { Lower(metas[i].name.v) :
                           i \in { j \in 1..Len(metas) :
                                     MetaBranch(metas[j]) = "twitter" } }
        IN  /\ seo_data.meta_description =
                  ContentOf(metas, LastOf(metas, "description", <<>>))
            /\ seo_data.meta_keywords =
                  ContentOf(metas, LastOf(metas, "keywords", <<>>))
            /\ DOMAIN seo_data.og_tags = og_keys
            /\ \A k \in og_keys :
                  seo_data.og_tags[k] = ContentOf(metas, LastOf(metas, "og", k))
            /\ DOMAIN seo_data.twitter_tags = tw_keys
            /\ \A k \in tw_keys :
                  seo_data.twitter_tags[k] =
                      ContentOf(metas, LastOf(metas, "twitter", k))
            /\ seo_data.title = <<>>
            /\ seo_data.h1_tags = <<>>
            /\ seo_data.canonical = <<>>
            /\ seo_data.url = url
            /\ ret.val = seo_data

\* a page whose only <meta> has name='description' and property='og:title'
\* has been extracted: meta_description is set and og_tags stays empty
C15_Witness ==
    /\ ret.op = "extract_seo_tags"
    /\ soup # PyNone
    /\ Len(soup.metas) = 1
    /\ soup.metas[1].name = PyStr(DESCRIPTION)
    /\ soup.metas[1].property = PyStr(OG_TITLE)
    /\ seo_data.meta_description = <<"M">>
    /\ DOMAIN seo_data.og_tags = {}

(***************************************************************************)
(* C17: whatever fetch_html and extract_seo_tags calls came before, the    *)
(* url of get_preview_data is the url field of the analyzer's current      *)
(* seo_data, the document its title, description and image come from, and  *)
(* domain is the host of that url.                                         *)
(***************************************************************************)
C17_PreviewUrlOfDocument ==
    (ret.op = "get_preview_data" /\ DOMAIN seo_data # {}) =>
        /\ ret.val.url = seo_data.url
        /\ ret.val.domain = Netloc(seo_data.url.v)

(***************************************************************************)
(* C11: a run whose fetch and extraction succeed and whose save fails is   *)
(* still a completed analysis: save_analysis returns False and raises      *)
(* nothing (no error message is shown), analyzed becomes true, and the     *)
(* results displayed are those of the document just extracted.             *)
(***************************************************************************)
C11_SaveFailureDegrades ==
    [][(ret'.op = "analyze" /\ ret'.fetch = "ok" /\ ~ret'.saved)
       => /\ ret'.st_error = NoError
          /\ analyzed'
          /\ ret'.displays
          /\ seo_data' = extract_seo_tags(soup', url')
          /\ url' = PyStr(normalize_url(arg'))
          /\ cache'.present
          /\ cache'.analysis = analyze_seo_quality(seo_data')
          /\ cache'.score = calculate_seo_score(cache'.analysis)
          /\ cache'.preview = get_preview_data(seo_data', url')]_vars

\* the first analysis of a session, of a page with a title, was not saved
\* and is displayed
C11_Witness ==
    /\ ret.op = "analyze"
    /\ ret.fetch = "ok"
    /\ ~ret.saved
    /\ Len(store) = 0
    /\ analyzed
    /\ cache.present
    /\ seo_data.title # <<>>

(***************************************************************************)
(* C13: a run adds one record to the store when its fetch and its save     *)
(* both succeed, after the records already there, and no run of any kind   *)
(* (failed analysis, re-display, listing, lookup, preview edit) changes or *)
(* removes a record.                                                       *)
(***************************************************************************)
C13_StoreAppendOnly ==
    [][IF ret'.op = "analyze" /\ ret'.fetch = "ok" /\ ret'.saved
       THEN /\ Len(store') = Len(store) + 1
            /\ SubSeq(store', 1, Len(store)) = store
            /\ store'[Len(store')].url = seo_data'.url.v
       ELSE store' = store]_vars

\* the history tab has listed the two records of two saved analyses
C13_Witness ==
    /\ ret.op = "history"
    /\ Len(store) = 2
    /\ Len(ret.val) = 2
    /\ ret.val[1].analyzed_at = 2

(***************************************************************************)
(* C18: whenever a run displays results, the cached analysis, score and    *)
(* preview are those computed from the analyzer's current seo_data and     *)
(* url; a cache left by an earlier analysis, of the same URL included, is  *)
(* never displayed.                                                        *)
(***************************************************************************)
C18_CacheIsCurrent ==
    (ret.op # "none" /\ ret.displays) =>
        /\ cache.present
        /\ cache.url = url
        /\ cache.analysis = analyze_seo_quality(seo_data)
        /\ cache.score = calculate_seo_score(analyze_seo_quality(seo_data))
        /\ cache.preview = get_preview_data(seo_data, url)

\* the same URL has been analyzed and saved twice, its page having changed
\* in between, and the second analysis is displayed
C18_Witness ==
    /\ ret.op = "analyze"
    /\ ret.saved
    /\ ret.displays
    /\ Len(store) = 2
    /\ store[1].url = store[2].url
    /\ store[1].title # store[2].title
    /\ cache.present

(***************************************************************************)
(* C19: editing a preview's title or description works on a copy: the run  *)
(* leaves the cached preview, analysis and score, the analyzer's seo_data  *)
(* and the stored records as they were, and the results of a later         *)
(* analysis come from the fetched page alone.                              *)
(***************************************************************************)
C19_EditOnCopy ==
    [][/\ ret'.op = "edit_preview"
          => /\ cache' = cache
             /\ cache'.preview = get_preview_data(seo_data, url)
             /\ seo_data' = seo_data
             /\ store' = store
             /\ soup' = soup /\ url' = url /\ analyzed' = analyzed
       /\ (ret.op = "edit_preview" /\ ret'.op = "analyze"
           /\ ret'.fetch = "ok")
          => /\ seo_data' = extract_seo_tags(soup', url')
             /\ cache'.preview = get_preview_data(seo_data', url')
             /\ Len(store') > Len(store)
                   => store'[Len(store')].title = seo_data'.title]_vars

\* both tabs have rendered an edited preview, the Google tab one with the
\* edited title, and the cached preview still has the extracted title
C19_Witness ==
    /\ ret.op = "edit_preview"
    /\ ret.google.rendered
    /\ ret.social.rendered
    /\ ret.google.preview.title = PyStr(<<"E">>)
    /\ cache.preview.title # PyStr(<<"E">>)
    /\ Len(store) > 0

====
